---- MODULE Spec2Model ----
(***************************************************************************)
(* Model of src/src/python/serialization.py: the Packet wire format        *)
(* (HEADER_PACKER, Packet.write_pkt_data, Packet.recv_pkt_data) and the    *)
(* IO_Info channel (_connect_sock, __del__, write_pkt_data).               *)
(*                                                                         *)
(* Two specifications share the variables:                                 *)
(*   Spec      - the life of one IO_Info object: the resolver loop of      *)
(*               _connect_sock step by step, then the public operations.   *)
(*   CodecSpec - one stream socket: one end writes packets with            *)
(*               Packet.write_pkt_data, the other end reads them with      *)
(*               Packet.recv_pkt_data; every recv may return fewer bytes   *)
(*               than requested.                                           *)
(* Bytes are naturals 0..255, byte strings are sequences of bytes.         *)
(***************************************************************************)
EXTENDS Integers, Sequences, FiniteSets

\* ------------------------------------------------------------------ bounds
MaxCands == 3     \* longest candidate list returned by getaddrinfo
MaxOps == 3       \* public calls made on the object after construction
MaxLen == 2       \* longest payload drawn over ByteVals
MaxWire == 31     \* bytes written on one stream
MaxRecv == 2      \* Packet.recv_pkt_data calls on one stream

\* ------------------------------------------------------------- wire format
\* HEADER_PACKER = Struct("!3I"): three unsigned 32-bit ints, 12 bytes
HEADER_PACKER_size == 12

Min(a, b) == IF a <= b THEN a ELSE b

\* pack_I with the byte order of Struct("<3I")
pack_I_little_endian(v) ==
    << v % 256, (v \div 256) % 256, (v \div 65536) % 256, (v \div 16777216) % 256 >>

\* one "I" field of a "!" Struct: 4 bytes, most significant first
pack_I(v) ==
    << (v \div 16777216) % 256, (v \div 65536) % 256, (v \div 256) % 256, v % 256 >>

unpack_I(b) == ((b[1] * 256 + b[2]) * 256 + b[3]) * 256 + b[4]

\* HEADER_PACKER.pack(a, b, c)
HEADER_PACKER_pack(a, b, c) == pack_I(a) \o pack_I(b) \o pack_I(c)

\* HEADER_PACKER.unpack(header): defined on exactly HEADER_PACKER.size bytes
\* (struct.error on any other length, decided by the caller's guard)
HEADER_PACKER_unpack(header) ==
    << unpack_I(SubSeq(header, 1, 4)),
       unpack_I(SubSeq(header, 5, 8)),
       unpack_I(SubSeq(header, 9, 12)) >>

\* pack_s as sock.sendall(self.data) would send: the payload as it is
pack_s_as_is(n, data) == data

\* pack_s as sock.sendall(self.data[:n]) would send: cut to n bytes, never padded
pack_s_no_pad(n, data) == SubSeq(data, 1, Min(n, Len(data)))

\* struct.pack(f"{n}s", data): data cut to n bytes, or padded with NUL bytes
pack_s(n, data) == [k \in 1..n |-> IF k <= Len(data) THEN data[k] ELSE 0]

\* the NamedTuple Packet(data_len, data_type, data)
Packet(data_len, data_type, data) ==
    [data_len |-> data_len, data_type |-> data_type, data |-> data]

\* Packet.write_pkt_data(self, sock): the arguments of its two sock.sendall
\* calls, in call order
Packet_write_pkt_data(self) ==
    << HEADER_PACKER_pack(HEADER_PACKER_size, self.data_len, self.data_type),
       pack_s(self.data_len, self.data) >>

\* the bytes a connected stream socket carries after those two sendall calls
OnWire(calls) == calls[1] \o calls[2]

\* ------------------------------------------------------------------ inputs
ByteVals == {0, 104}
hello == << 104, 101, 108, 108, 111 >>
RECURSIVE SeqsUpTo(_, _)
SeqsUpTo(S, n) ==
    IF n = 0 THEN { << >> }
    ELSE LET shorter == SeqsUpTo(S, n - 1)
         IN  shorter \cup { Append(s, x) : s \in { t \in shorter : Len(t) = n - 1 }, x \in S }
Payloads == SeqsUpTo(ByteVals, MaxLen) \cup { hello }
\* data_type samples of the unsigned 32-bit range: SVR_SUCCESS = 99 and
\* 0x01020304, whose four bytes differ
TypeVals == {99, 16909060}
\* packets as the data model wants them: data_len = len(data)
ValidPackets == { Packet(Len(d), t, d) : d \in Payloads, t \in TypeVals }
\* packets whose data_len argument is any length, as IO_Info.write_pkt_data
\* and the Packet constructor accept them
AnyPackets == { Packet(n, t, d) : n \in 0..(MaxLen + 1), t \in {99}, d \in Payloads }
                  \cup ValidPackets
\* getaddrinfo results: what happens to each candidate when it is tried
Outcomes == {"socket_fails", "connect_fails", "ok"}
CandLists == SeqsUpTo(Outcomes, MaxCands)

VARIABLES
    \* --- IO_Info
    cands,      \* the list socket.getaddrinfo returned, as per-candidate outcomes
    pc,         \* position in __init__/_connect_sock: "for", "connect",
                \* "after", then "returned" or "raised"
    i,          \* index of the candidate the for loop is at
    sock_ok,    \* local of _connect_sock
    err,        \* local of _connect_sock: Unbound or the recorded OSError
    self_sock,  \* self._sock: Unset (no such attribute), None or Sock(k)
    socks,      \* per candidate: the socket created for it, if any
    exc,        \* what __init__ raised: NoExc or the exception
    nops,       \* public calls made after construction
    lastOp,     \* the last public call and how it ended
    \* --- one stream socket
    sendalls,   \* arguments of the sendall calls the last public call made
    sent,       \* packets written to the stream so far
    wire,       \* bytes written and not yet received
    closed,     \* the writing end has closed the stream
    rpc,        \* position in Packet.recv_pkt_data: "header" or "data"
    hdr,        \* the unpacked header while rpc = "data"
    got         \* results of the completed recv_pkt_data calls

chanVars == << cands, pc, i, sock_ok, err, self_sock, socks, exc, nops, lastOp >>
streamVars == << sendalls, sent, wire, closed, rpc, hdr, got >>
vars == << chanVars, streamVars >>

NoSock == [state |-> "none", close_calls |-> 0]
NoPkt == Packet(0, 0, << >>)
NoOp == [op |-> "none", result |-> "none", pkt |-> NoPkt]
NoHdr == << 0, 0, 0 >>
NoSendalls == << << >>, << >> >>
\* values of self._sock
Unset == [kind |-> "unset", id |-> 0]
None == [kind |-> "None", id |-> 0]
Sock(k) == [kind |-> "socket", id |-> k]
\* values of the local err and of the exception __init__ raises
Unbound == [type |-> "unbound", cand |-> 0, at |-> "none"]
NoExc == [type |-> "none", cand |-> 0, at |-> "none"]
OSError(k, at) == [type |-> "OSError", cand |-> k, at |-> at]
UnboundLocalError == [type |-> "UnboundLocalError", cand |-> 0, at |-> "none"]

StreamInit ==
    /\ sendalls = NoSendalls
    /\ sent = << >>
    /\ wire = << >>
    /\ closed = FALSE
    /\ rpc = "header"
    /\ hdr = NoHdr
    /\ got = << >>

\* IO_Info(host, port) entered: __init__ calls _connect_sock, which sets
\* sock_ok = False and starts iterating over getaddrinfo's list
Init ==
    /\ cands \in CandLists
    /\ pc = "for"
    /\ i = 1
    /\ sock_ok = FALSE
    /\ err = Unbound
    /\ self_sock = Unset
    /\ socks = [k \in 1..Len(cands) |-> NoSock]
    /\ exc = NoExc
    /\ nops = 0
    /\ lastOp = NoOp
    /\ StreamInit

\* ------------------------------------------------------- IO_Info._connect_sock
\* one iteration's first try block: socket.socket(addr_fam, socktype, proto)
connect_sock_socket ==
    /\ pc = "for"
    /\ i <= Len(cands)
    /\ IF cands[i] = "socket_fails"
       THEN /\ err' = OSError(i, "socket")
            /\ i' = i + 1
            /\ UNCHANGED << pc, self_sock, socks >>
       ELSE /\ socks' = [socks EXCEPT ![i] = [state |-> "open", close_calls |-> 0]]
            /\ self_sock' = Sock(i)
            /\ pc' = "connect"
            /\ UNCHANGED << err, i >>
    /\ UNCHANGED << cands, sock_ok, exc, nops, lastOp, streamVars >>

\* connect_sock_connect whose except branch forgets self._sock.close()
connect_sock_connect_no_close ==
    /\ pc = "connect"
    /\ IF cands[i] = "connect_fails"
       THEN /\ err' = OSError(i, "connect")
            /\ i' = i + 1
            /\ pc' = "for"
            /\ UNCHANGED << sock_ok, socks >>
       ELSE /\ socks' = [socks EXCEPT ![i].state = "connected"]
            /\ sock_ok' = TRUE
            /\ pc' = "after"
            /\ UNCHANGED << err, i >>
    /\ UNCHANGED << cands, self_sock, exc, nops, lastOp, streamVars >>

\* connect_sock_connect without the break: the loop goes on after a success
connect_sock_connect_no_break ==
    /\ pc = "connect"
    /\ IF cands[i] = "connect_fails"
       THEN /\ socks' = [socks EXCEPT ![i] =
                            [state |-> "closed", close_calls |-> @.close_calls + 1]]
            /\ err' = OSError(i, "connect")
            /\ UNCHANGED sock_ok
       ELSE /\ socks' = [socks EXCEPT ![i].state = "connected"]
            /\ sock_ok' = TRUE
            /\ UNCHANGED err
    /\ i' = i + 1
    /\ pc' = "for"
    /\ UNCHANGED << cands, self_sock, exc, nops, lastOp, streamVars >>

\* the second try block: self._sock.connect(sock_addr), then either the
\* except branch (close, record, continue) or sock_ok = True and break
connect_sock_connect ==
    /\ pc = "connect"
    /\ IF cands[i] = "connect_fails"
       THEN /\ socks' = [socks EXCEPT ![i] =
                            [state |-> "closed", close_calls |-> @.close_calls + 1]]
            /\ err' = OSError(i, "connect")
            /\ i' = i + 1
            /\ pc' = "for"
            /\ UNCHANGED sock_ok
       ELSE /\ socks' = [socks EXCEPT ![i].state = "connected"]
            /\ sock_ok' = TRUE
            /\ pc' = "after"
            /\ UNCHANGED << err, i >>
    /\ UNCHANGED << cands, self_sock, exc, nops, lastOp, streamVars >>

\* connect_sock_end that prints the message and forgets to raise
connect_sock_end_no_raise ==
    /\ IF pc = "for" THEN i > Len(cands) ELSE pc = "after"
    /\ pc' = "returned"
    /\ UNCHANGED << cands, i, sock_ok, err, self_sock, socks, exc, nops, lastOp, streamVars >>

\* connect_sock_end as it would run with "err = None" set before the loop:
\* "if err:" is false when no iteration recorded an error, nothing is raised
connect_sock_end_err_none ==
    /\ IF pc = "for" THEN i > Len(cands) ELSE pc = "after"
    /\ IF sock_ok \/ err = Unbound
       THEN /\ pc' = "returned"
            /\ UNCHANGED exc
       ELSE /\ pc' = "raised"
            /\ exc' = err
    /\ UNCHANGED << cands, i, sock_ok, err, self_sock, socks, nops, lastOp, streamVars >>

\* after the loop (list exhausted, or break): "if not sock_ok: ... if err:
\* raise err". Reading err when no iteration assigned it raises
\* UnboundLocalError; an OSError instance is truthy, so it is raised.
connect_sock_end ==
    /\ IF pc = "for" THEN i > Len(cands) ELSE pc = "after"
    /\ IF sock_ok
       THEN /\ pc' = "returned"
            /\ UNCHANGED exc
       ELSE /\ pc' = "raised"
            /\ exc' = IF err = Unbound THEN UnboundLocalError ELSE err
    /\ UNCHANGED << cands, i, sock_ok, err, self_sock, socks, nops, lastOp, streamVars >>

\* ------------------------------------------------- IO_Info public operations
Constructed == pc \in {"returned", "raised"}

\* IO_Info.write_pkt_data(data, len, data_type)
IO_Info_write_pkt_data(data, len, data_type) ==
    /\ Constructed
    /\ nops < MaxOps
    /\ nops' = nops + 1
    /\ LET p == Packet(len, data_type, data)
       IN  CASE self_sock = Unset ->
                  \* "self._sock" does not exist: AttributeError
                  /\ lastOp' = [op |-> "write", result |-> "AttributeError",
                                pkt |-> p]
                  /\ sendalls' = NoSendalls
             [] self_sock = None ->
                  /\ lastOp' = [op |-> "write", result |-> "OSError",
                                pkt |-> p]
                  /\ sendalls' = NoSendalls
             [] self_sock.kind = "socket" /\ socks[self_sock.id].state = "closed" ->
                  \* Packet.write_pkt_data runs; sendall on a closed socket
                  \* object raises OSError (bad file descriptor), nothing is sent
                  /\ lastOp' = [op |-> "write", result |-> "OSError",
                                pkt |-> p]
                  /\ sendalls' = NoSendalls
             [] OTHER ->
                  /\ sendalls' = Packet_write_pkt_data(p)
                  /\ lastOp' = [op |-> "write", result |-> "ok", pkt |-> p]
    /\ UNCHANGED << cands, pc, i, sock_ok, err, self_sock, socks, exc >>
    /\ UNCHANGED << sent, wire, closed, rpc, hdr, got >>

\* info.recv_pkt_data(): class IO_Info defines __init__, __del__,
\* _connect_sock and write_pkt_data only, so the attribute lookup raises
\* AttributeError before any socket is touched
IO_Info_recv_pkt_data ==
    /\ Constructed
    /\ nops < MaxOps
    /\ nops' = nops + 1
    /\ lastOp' = [op |-> "recv", result |-> "AttributeError", pkt |-> NoPkt]
    /\ sendalls' = NoSendalls
    /\ UNCHANGED << cands, pc, i, sock_ok, err, self_sock, socks, exc >>
    /\ UNCHANGED << sent, wire, closed, rpc, hdr, got >>

\* IO_Info.__del__ with its test inverted ("if self._sock is None"): a
\* socket is left alone, and None.close() raises AttributeError
IO_Info_del_inverted ==
    /\ Constructed
    /\ nops < MaxOps
    /\ nops' = nops + 1
    /\ lastOp' = [op |-> "del",
                  result |-> IF self_sock.kind = "socket" THEN "ok" ELSE "AttributeError",
                  pkt |-> NoPkt]
    /\ sendalls' = NoSendalls
    /\ UNCHANGED << cands, pc, i, sock_ok, err, exc, self_sock, socks >>
    /\ UNCHANGED << sent, wire, closed, rpc, hdr, got >>

\* IO_Info.__del__
IO_Info_del ==
    /\ Constructed
    /\ nops < MaxOps
    /\ nops' = nops + 1
    /\ CASE self_sock = Unset ->
              /\ lastOp' = [op |-> "del", result |-> "AttributeError",
                            pkt |-> NoPkt]
              /\ UNCHANGED << self_sock, socks >>
         [] self_sock = None ->
              /\ lastOp' = [op |-> "del", result |-> "ok", pkt |-> NoPkt]
              /\ UNCHANGED << self_sock, socks >>
         [] OTHER ->
              /\ socks' = [socks EXCEPT ![self_sock.id] =
                              [state |-> "closed", close_calls |-> @.close_calls + 1]]
              /\ self_sock' = None
              /\ lastOp' = [op |-> "del", result |-> "ok", pkt |-> NoPkt]
    /\ sendalls' = NoSendalls
    /\ UNCHANGED << cands, pc, i, sock_ok, err, exc >>
    /\ UNCHANGED << sent, wire, closed, rpc, hdr, got >>

\* the peer answers a request on the connected socket (the server of
\* test_send_hero answers Packet(0, SVR_SUCCESS, b""))
Replies == { Packet(Len(d), 99, d) : d \in SeqsUpTo(ByteVals, 1) }
Connected == self_sock.kind = "socket" /\ socks[self_sock.id].state = "connected"
PeerReply(r) ==
    /\ pc = "returned"
    /\ Connected
    /\ lastOp.op = "write"
    /\ lastOp.result = "ok"
    /\ sent = << >>
    /\ sent' = << r >>
    /\ wire' = OnWire(Packet_write_pkt_data(r))
    /\ UNCHANGED << chanVars, sendalls, closed, rpc, hdr, got >>

Next ==
    \/ connect_sock_socket
    \/ connect_sock_connect
    \/ connect_sock_end
    \/ \E p \in AnyPackets : IO_Info_write_pkt_data(p.data, p.data_len, p.data_type)
    \/ IO_Info_recv_pkt_data
    \/ IO_Info_del
    \/ \E r \in Replies : PeerReply(r)

Spec == Init /\ [][Next]_vars

\* ------------------------------------------------------------ one stream socket
\* no IO_Info object: the two ends hold a connected socket each
CodecInit ==
    /\ cands = << >>
    /\ pc = "none"
    /\ i = 1
    /\ sock_ok = FALSE
    /\ err = Unbound
    /\ self_sock = Unset
    /\ socks = << >>
    /\ exc = NoExc
    /\ nops = 0
    /\ lastOp = NoOp
    /\ StreamInit

\* bytes the packets of ps occupy on the stream
RECURSIVE Written(_)
Written(ps) ==
    IF ps = << >> THEN 0
    ELSE Len(OnWire(Packet_write_pkt_data(Head(ps)))) + Written(Tail(ps))

\* p.write_pkt_data(sock) at the writing end
Write(p) ==
    /\ ~closed
    /\ Written(Append(sent, p)) <= MaxWire
    /\ sendalls' = Packet_write_pkt_data(p)
    /\ wire' = wire \o OnWire(Packet_write_pkt_data(p))
    /\ sent' = Append(sent, p)
    /\ UNCHANGED << chanVars, closed, rpc, hdr, got >>

\* p.write_pkt_data(sock) cut short: the first sendall (the header) is done,
\* then the writing end goes away before the second one and the stream ends
write_pkt_data_interrupted(p) ==
    /\ ~closed
    /\ Written(Append(sent, p)) <= MaxWire
    /\ sendalls' = << Packet_write_pkt_data(p)[1], << >> >>
    /\ wire' = wire \o Packet_write_pkt_data(p)[1]
    /\ closed' = TRUE
    /\ UNCHANGED << chanVars, sent, rpc, hdr, got >>

\* the writing end closes: once the buffered bytes are read, recv returns b""
CloseStream ==
    /\ ~closed
    /\ closed' = TRUE
    /\ UNCHANGED << chanVars, sendalls, sent, wire, rpc, hdr, got >>

\* sock.recv(n) can return now: n = 0, or bytes are buffered, or end of stream
RecvReady(n) == n = 0 \/ wire # << >> \/ closed
\* the lengths sock.recv(n) may return: at least one byte when n > 0 and
\* bytes are buffered, never more than n nor more than is buffered
RecvLens(n) == IF n = 0 \/ wire = << >> THEN {0} ELSE 1..Min(n, Len(wire))

\* sock.recv(n) returned b"" because the stream has ended (n > 0)
ZeroLengthRead(n) == n > 0 /\ wire = << >>

\* how a recv_pkt_data call ended: what it raised or returned, the bytes it
\* took off the stream, and whether one of its recv calls hit end of stream
StructError(n, e) == [kind |-> "struct.error", pkt |-> NoPkt, taken |-> n, eof |-> e]
Received(p, n, e) == [kind |-> "Packet", pkt |-> p, taken |-> n, eof |-> e]

\* Packet.recv_pkt_data, first half: header = sock.recv(HEADER_PACKER.size),
\* then HEADER_PACKER.unpack(header), which raises struct.error unless
\* len(header) == 12. The reader makes no further call once one has raised.
recv_pkt_data_header ==
    /\ rpc = "header"
    /\ Len(got) < MaxRecv
    /\ \A j \in 1..Len(got) : got[j].kind = "Packet"
    /\ RecvReady(HEADER_PACKER_size)
    /\ \E k \in RecvLens(HEADER_PACKER_size) :
          LET header == SubSeq(wire, 1, k)
          IN  /\ wire' = SubSeq(wire, k + 1, Len(wire))
              /\ IF Len(header) = HEADER_PACKER_size
                 THEN /\ hdr' = HEADER_PACKER_unpack(header)
                      /\ rpc' = "data"
                      /\ UNCHANGED got
                 ELSE /\ got' = Append(got, StructError(k, ZeroLengthRead(HEADER_PACKER_size)))
                      /\ UNCHANGED << hdr, rpc >>
    /\ UNCHANGED << chanVars, sendalls, sent, closed >>

\* recv_pkt_data_data as it would be with the header_size field checked
\* against HEADER_PACKER.size: any other value is refused with an error
recv_pkt_data_data_validating ==
    /\ rpc = "data"
    /\ RecvReady(hdr[2])
    /\ IF hdr[1] # HEADER_PACKER_size
       THEN /\ got' = Append(got, StructError(HEADER_PACKER_size, FALSE))
            /\ UNCHANGED wire
       ELSE \E k \in RecvLens(hdr[2]) :
              LET data == SubSeq(wire, 1, k)
              IN  /\ wire' = SubSeq(wire, k + 1, Len(wire))
                  /\ got' = Append(got, Received(Packet(hdr[2], hdr[3], data),
                                                 HEADER_PACKER_size + k,
                                                 ZeroLengthRead(hdr[2])))
    /\ rpc' = "header"
    /\ hdr' = NoHdr
    /\ UNCHANGED << chanVars, sendalls, sent, closed >>

\* second half: data = sock.recv(data_len); return Packet(data_len,
\* data_type, data)
recv_pkt_data_data ==
    /\ rpc = "data"
    /\ RecvReady(hdr[2])
    /\ \E k \in RecvLens(hdr[2]) :
          LET data == SubSeq(wire, 1, k)
          IN  /\ wire' = SubSeq(wire, k + 1, Len(wire))
              /\ got' = Append(got, Received(Packet(hdr[2], hdr[3], data),
                                             HEADER_PACKER_size + k,
                                             ZeroLengthRead(hdr[2])))
    /\ rpc' = "header"
    /\ hdr' = NoHdr
    /\ UNCHANGED << chanVars, sendalls, sent, closed >>

CodecNext ==
    \/ \E p \in ValidPackets : Write(p)
    \/ \E p \in ValidPackets : write_pkt_data_interrupted(p)
    \/ CloseStream
    \/ recv_pkt_data_header
    \/ recv_pkt_data_data

CodecSpec == CodecInit /\ [][CodecNext]_vars

\* ------------------------------------------- a stream written by another peer
\* header_size values a peer may put in the first header field: 12, and
\* others of the unsigned 32-bit range (0, and 0x01020304)
HeaderSizes == {0, 12, 16909060}

\* a peer that does not use Packet.write_pkt_data writes packet p framed the
\* same way, but with hs in the header_size field
ForeignWrite(p, hs) ==
    /\ ~closed
    /\ Written(Append(sent, p)) <= MaxWire
    /\ sendalls' = << HEADER_PACKER_pack(hs, p.data_len, p.data_type), p.data >>
    /\ wire' = wire \o HEADER_PACKER_pack(hs, p.data_len, p.data_type) \o p.data
    /\ sent' = Append(sent, p)
    /\ UNCHANGED << chanVars, closed, rpc, hdr, got >>

ForeignNext ==
    \/ \E p \in ValidPackets, hs \in HeaderSizes : ForeignWrite(p, hs)
    \/ CloseStream
    \/ recv_pkt_data_header
    \/ recv_pkt_data_data

ForeignSpec == CodecInit /\ [][ForeignNext]_vars

\* ===================================================================== claims
SomeOk == \E k \in 1..Len(cands) : cands[k] = "ok"
FirstOk == CHOOSE k \in 1..Len(cands) :
               cands[k] = "ok" /\ \A j \in 1..(k - 1) : cands[j] # "ok"
IsOpen(k) == socks[k].state \in {"open", "connected"}

\* C1 (as claimed; CodecSpec): while the stream has not ended, every Packet
\* that recv_pkt_data returns carries exactly data_len payload bytes,
\* however the transport splits the bytes over the recv calls.
C1_DecodeNeverShort ==
    ~closed =>
        \A j \in 1..Len(got) :
            got[j].kind = "Packet" => Len(got[j].pkt.data) = got[j].pkt.data_len

\* C2 (as claimed; CodecSpec): round trip. The first recv_pkt_data call on a
\* stream returns the first packet written to it (data_len = len(data)),
\* with the same data_len, data_type and data.
C2_RoundTrip ==
    (~closed /\ Len(got) >= 1 /\ Len(sent) >= 1) =>
        /\ got[1].kind = "Packet"
        /\ got[1].pkt = sent[1]

\* C3 (as claimed; Spec): on a connected Channel that has sent a request and
\* to which the peer has sent a reply, the receive call returns that reply
\* without raising.
C3_ReceiveReturnsReply ==
    (lastOp.op = "recv" /\ pc = "returned" /\ Connected /\ Len(sent) = 1) =>
        /\ lastOp.result = "ok"
        /\ lastOp.pkt = sent[1]

\* C4 (Spec): resolver fallback. When some candidate can connect, the
\* construction returns normally, self._sock is the socket of the first such
\* candidate k and is connected, and no socket created for candidates
\* 1..k-1 is left open (each one whose connect failed is closed).
C4_ResolverFallback ==
    (Constructed /\ nops = 0 /\ SomeOk) =>
        /\ pc = "returned"
        /\ exc = NoExc
        /\ self_sock = Sock(FirstOk)
        /\ socks[FirstOk].state = "connected"
        /\ \A j \in 1..(FirstOk - 1) :
              /\ ~IsOpen(j)
              /\ cands[j] = "connect_fails" => socks[j].state = "closed"

C4_Witness ==
    /\ pc = "returned"
    /\ nops = 0
    /\ Len(cands) >= 2
    /\ cands[1] = "connect_fails"
    /\ cands[2] = "ok"
    /\ self_sock = Sock(2)
    /\ socks[1].state = "closed"

\* C5 (Spec): resolver exhaustion. When every candidate fails, the
\* construction ends by raising, and from then on no socket created during
\* the attempt is open.
C5_ResolverExhaustion ==
    (Constructed /\ ~SomeOk) =>
        /\ pc = "raised"
        /\ exc # NoExc
        /\ \A j \in 1..Len(cands) : ~IsOpen(j)

C5_Witness ==
    /\ pc = "raised"
    /\ \E j \in 1..Len(cands) : cands[j] = "socket_fails"
    /\ \E j \in 1..Len(cands) : cands[j] = "connect_fails" /\ socks[j].state = "closed"

\* C6 (as claimed; Spec): a send or receive on a Channel with no live
\* connection (construction failed on a candidate's socket creation or
\* connect, or teardown has run) ends with OSError and makes no sendall call.
C6_NotConnectedIsOSError ==
    (lastOp.op \in {"write", "recv"} /\ cands # << >> /\ ~Connected) =>
        /\ lastOp.result = "OSError"
        /\ sendalls = NoSendalls

\* C7 (as claimed; CodecSpec): a recv_pkt_data call one of whose reads came
\* back empty because the stream had ended never returns a Packet; it
\* reports an error.
C7_ClosureIsReported ==
    \A j \in 1..Len(got) : got[j].eof => got[j].kind # "Packet"

\* C8 (CodecSpec): wire layout. For the packet p last written (data_len =
\* len(data)), the first sendall carried 12 bytes - 00 00 00 0C, then
\* data_len and data_type each as 4 bytes, most significant first - and the
\* second carried the data unchanged; a stream with one packet written and
\* nothing read holds exactly these bytes in this order.
BigEndian(b, v) ==
    /\ Len(b) = 4
    /\ \A k \in 1..4 : b[k] \in 0..255
    /\ b[1] * 16777216 + b[2] * 65536 + b[3] * 256 + b[4] = v
C8_WireLayout ==
    (sent # << >> /\ ~closed) =>
        LET p == sent[Len(sent)]
            h == sendalls[1]
        IN  /\ Len(h) = 12
            /\ SubSeq(h, 1, 4) = << 0, 0, 0, 12 >>
            /\ BigEndian(SubSeq(h, 5, 8), p.data_len)
            /\ BigEndian(SubSeq(h, 9, 12), p.data_type)
            /\ sendalls[2] = p.data
            /\ (Len(sent) = 1 /\ got = << >> /\ rpc = "header") => wire = h \o p.data

C8_Witness ==
    /\ sent = << Packet(5, 99, hello) >>
    /\ wire = << 0, 0, 0, 12, 0, 0, 0, 5, 0, 0, 0, 99, 104, 101, 108, 108, 111 >>

\* C9 (as claimed; Spec): every successful write puts 12 + len(data) bytes on
\* the socket, whatever the len argument.
C9_WidthIsLenOfData ==
    (lastOp.op = "write" /\ lastOp.result = "ok") =>
        Len(OnWire(sendalls)) = 12 + Len(lastOp.pkt.data)

\* C9 (amended; Spec): every successful write puts 12 + data_len bytes on the
\* socket, which is 12 + len(data) when data_len = len(data).
C9_WidthIsDataLen ==
    (lastOp.op = "write" /\ lastOp.result = "ok") =>
        /\ Len(sendalls[1]) = 12
        /\ Len(OnWire(sendalls)) = 12 + lastOp.pkt.data_len
        /\ lastOp.pkt.data_len = Len(lastOp.pkt.data) =>
               Len(OnWire(sendalls)) = 12 + Len(lastOp.pkt.data)

C9_Witness ==
    /\ lastOp.op = "write"
    /\ lastOp.result = "ok"
    /\ lastOp.pkt.data_len < Len(lastOp.pkt.data)
    /\ Len(OnWire(sendalls)) = 12 + lastOp.pkt.data_len

\* C10 (as claimed; Spec): whenever the construction raises, it raises an
\* OSError, the one recorded for the last candidate tried.
C10_RaisesLastOSError ==
    pc = "raised" =>
        /\ exc.type = "OSError"
        /\ exc.cand = Len(cands)
        /\ exc.at = (IF cands[Len(cands)] = "socket_fails" THEN "socket" ELSE "connect")

OpenSocks == { k \in 1..Len(cands) : IsOpen(k) }

\* C11 (Spec): whenever the construction has returned normally (and no
\* public call has been made yet), self._sock is a socket, that socket is
\* connected, and it is the only socket of the object that is open; a
\* construction that does not end this way has raised.
C11_ReturnedMeansConnected ==
    /\ (pc = "returned" /\ nops = 0) =>
          /\ self_sock.kind = "socket"
          /\ socks[self_sock.id].state = "connected"
          /\ OpenSocks = { self_sock.id }
    /\ (Constructed /\ nops = 0 /\ ~Connected) => (pc = "raised" /\ exc # NoExc)

C11_Witness ==
    /\ pc = "returned"
    /\ nops = 0
    /\ Connected
    /\ Len(cands) >= 3
    /\ cands[1] = "socket_fails"
    /\ cands[2] = "connect_fails"
    /\ self_sock = Sock(3)

\* C12 (as claimed; Spec): over the life of the object close() is invoked
\* at most once on each socket it created, and once teardown has run to its
\* end (self._sock is None) no socket it created is open.
C12_ClosedExactlyOnce ==
    /\ \A k \in 1..Len(cands) : socks[k].close_calls <= 1
    /\ self_sock = None => OpenSocks = {}

\* a step that is one __del__ call
DelStep == nops' = nops + 1 /\ lastOp'.op = "del"

\* C13 (as claimed; Spec): teardown never raises, in any state of the
\* object, and an invocation that is not the first (self._sock is no longer
\* a socket) changes nothing and touches no socket.
C13_TeardownIdempotent ==
    [][(DelStep /\ cands # << >>) =>
          /\ lastOp'.result = "ok"
          /\ self_sock.kind # "socket" => UNCHANGED << self_sock, socks >>]_vars

\* C14 (Spec): Failed and Closed are terminal. A failed construction leaves
\* no connected socket, a teardown that ran leaves none either, and from a
\* constructed object without a connected socket no public call (write,
\* receive, teardown) brings one back or gets a packet sent.
C14_TerminalStates ==
    /\ [](pc = "raised" => ~Connected)
    /\ []((lastOp.op = "del" /\ lastOp.result = "ok") => ~Connected)
    /\ [][(Constructed /\ ~Connected) =>
              /\ ~Connected'
              /\ pc' = pc
              /\ lastOp'.result # "ok" \/ lastOp'.op # "write"
              /\ sendalls' = NoSendalls]_vars

C14_Witness ==
    /\ pc = "returned"
    /\ self_sock = None
    /\ socks[FirstOk].state = "closed"
    /\ lastOp.op = "write"
    /\ lastOp.result = "OSError"

\* candidate k has been tried: its socket was created, or its socket
\* creation failed (which moved the loop past it)
Tried(k) == socks[k] # NoSock \/ (cands[k] = "socket_fails" /\ k < i)

\* C15 (Spec): first success wins. The candidates tried so far are always a
\* prefix of the list, in order (all of those before the loop index, and
\* none after it); no candidate after the first one that can connect is
\* ever tried; and once a connect has succeeded the adopted socket is that
\* first one's.
C15_FirstSuccessWins ==
    /\ \A k \in 1..Len(cands) : (k < i => Tried(k)) /\ (k > i => ~Tried(k))
    /\ err # Unbound => err.cand < i
    /\ SomeOk =>
          /\ i <= FirstOk
          /\ \A k \in (FirstOk + 1)..Len(cands) : ~Tried(k)
          /\ sock_ok => socks[FirstOk].state \in {"connected", "closed"}
          /\ (sock_ok /\ self_sock # None) => self_sock = Sock(FirstOk)

C15_Witness ==
    /\ pc = "returned"
    /\ Len(cands) >= 3
    /\ cands[1] = "connect_fails"
    /\ cands[2] = "ok"
    /\ cands[3] = "ok"
    /\ self_sock = Sock(2)
    /\ socks[2].state = "connected"
    /\ socks[3] = NoSock

\* C16 (as claimed; CodecSpec): message boundaries. While the stream has not
\* ended, the j-th completed recv_pkt_data call has returned the j-th packet
\* written (data_len = len(data)) and has taken exactly its 12 + data_len
\* bytes off the stream, so that the bytes still buffered are exactly the
\* packets not yet read.
C16_BoundariesPreserved ==
    ~closed =>
        /\ \A j \in 1..Len(got) :
              /\ j <= Len(sent)
              /\ got[j] = Received(sent[j], HEADER_PACKER_size + sent[j].data_len, FALSE)
        /\ (rpc = "header" /\ Len(got) <= Len(sent)) =>
              Len(wire) = Written(SubSeq(sent, Len(got) + 1, Len(sent)))

\* C17 (ForeignSpec): header_size is read and ignored. Whatever value the
\* first header field holds, the first recv_pkt_data call on a stream takes
\* exactly 12 bytes as the header, reads data_len and data_type from bytes
\* 5..12, and ends as the bytes after the first four and the lengths its
\* recv calls returned decide, and nothing else: a Packet with these two
\* fields and the payload bytes received, or struct.error only when the
\* header recv returned fewer than 12 bytes. Two streams that differ only
\* in the first four bytes therefore give the same result and consumption.
C17_HeaderSizeIgnored ==
    /\ (rpc = "data" /\ got = << >>) =>
          /\ hdr[2] = sent[1].data_len
          /\ hdr[3] = sent[1].data_type
          /\ Len(wire) = Written(sent) - 12
    /\ got # << >> =>
          IF got[1].kind = "Packet"
          THEN /\ got[1].pkt.data_len = sent[1].data_len
               /\ got[1].pkt.data_type = sent[1].data_type
               /\ got[1].taken \in 12..(12 + sent[1].data_len)
               /\ got[1].pkt.data = SubSeq(sent[1].data, 1, got[1].taken - 12)
          ELSE got[1].taken < 12

C17_Witness ==
    /\ Len(sent) = 1
    /\ sent[1].data_len > 0
    /\ SubSeq(sendalls[1], 1, 4) = << 1, 2, 3, 4 >>
    /\ Len(got) = 1
    /\ got[1] = Received(sent[1], 12 + sent[1].data_len, FALSE)

\* C18 (Spec): self-consistent framing. For every successful write, with
\* any data_len and data, the data_len field of the header sent (bytes
\* 5..8, most significant first) is the number of payload bytes sent after
\* the header, and that payload is data cut to data_len bytes when data is
\* longer, followed by NUL bytes up to data_len when data is shorter.
C18_SelfConsistentFraming ==
    (lastOp.op = "write" /\ lastOp.result = "ok") =>
        LET p == lastOp.pkt
            payload == sendalls[2]
        IN  /\ Len(sendalls[1]) = 12
            /\ BigEndian(SubSeq(sendalls[1], 5, 8), Len(payload))
            /\ Len(payload) = p.data_len
            /\ \A k \in 1..Len(payload) :
                  payload[k] = IF k <= Len(p.data) THEN p.data[k] ELSE 0

C18_Witness ==
    /\ lastOp.op = "write"
    /\ lastOp.result = "ok"
    /\ lastOp.pkt.data = << 104 >>
    /\ lastOp.pkt.data_len = 3
    /\ sendalls[2] = << 104, 0, 0 >>

\* C19 (Spec): at every step of the resolver loop, while connected and after
\* teardown, at most one socket created by the object is open, and a
\* candidate's socket is created only when every earlier candidate's socket
\* is closed or was never created.
C19_AtMostOneOpen ==
    /\ Cardinality(OpenSocks) <= 1
    /\ \A k \in 1..Len(cands) :
          socks[k].state # "none" =>
              \A j \in 1..(k - 1) : socks[j].state \in {"none", "closed"}

C19_Witness ==
    /\ pc = "connect"
    /\ i >= 2
    /\ socks[i].state = "open"
    /\ socks[i - 1].state = "closed"

====
